---- MODULE Spec2Model ----
(***************************************************************************)
(* Model of the arena-backed treap of src/src/lib.rs: the slot table       *)
(* (DirectVecIndex), the split/merge core and the public operations of     *)
(* Treap, each translated from its code, error paths included.             *)
(***************************************************************************)
EXTENDS Integers, Sequences, FiniteSets, TLC

\* ---------------------------------------------------------------- bounds
MaxKey == 2
MaxPri == 2
MaxVal == 1
MaxN   == 3

KeyT == 0..MaxKey
PriT == 0..MaxPri
ValT == 0..MaxVal
NthT == 0..MaxN

\* ------------------------------------------------- Option / Result values
\* NodePtr = Option<Id>: None is -1, Some(id) is the id itself (0-based).
None == -1
\* Option<T> of a payload: <<>> is None, <<x>> is Some(x).
Some(x) == <<x>>
\* Result tags.  An IndexError keeps its payload id.
Ok == <<"Ok">>
ErrNone == <<"None">>
ErrEmpty(id) == <<"Empty", id>>
ErrOutOfBounds(id) == <<"OutOfBounds", id>>
Panic == <<"panic">>

Node(k, p, v, l, r) == [key |-> k, priority |-> p, value |-> v, left |-> l, right |-> r]

\* ------------------------------------------------------------ Arena Index
DirectVecIndex_new == [reuse |-> <<>>, index |-> <<>>]

\* Mutant of DirectVecIndex::size: the raw table length.
DirectVecIndex_size_raw(ix) == Len(ix.index)

DirectVecIndex_size(ix) ==
    LET i == Len(ix.index)
        r == Len(ix.reuse)
    IN  IF i > r THEN i - r ELSE 0

\* Mutant of DirectVecIndex::insert: the reused id stays on the reuse stack.
DirectVecIndex_insert_keeps_reuse(ix, node) ==
    IF ix.reuse # <<>>
    THEN LET id == ix.reuse[Len(ix.reuse)]
             rest == SubSeq(ix.reuse, 1, Len(ix.reuse) - 1)
         IN  IF id >= Len(ix.index)
             THEN [res |-> Panic, index |-> [ix EXCEPT !.reuse = rest], id |-> None]
             ELSE [res |-> Ok,
                   index |-> [reuse |-> ix.reuse,
                              index |-> [ix.index EXCEPT ![id + 1] = Some(node)]],
                   id |-> id]
    ELSE [res |-> Ok,
          index |-> [ix EXCEPT !.index = Append(ix.index, Some(node))],
          id |-> Len(ix.index)]

\* reuse.pop() takes the most recently freed id; index[id] = .. panics when
\* id is outside the table.
DirectVecIndex_insert(ix, node) ==
    IF ix.reuse # <<>>
    THEN LET id == ix.reuse[Len(ix.reuse)]
             rest == SubSeq(ix.reuse, 1, Len(ix.reuse) - 1)
         IN  IF id >= Len(ix.index)
             THEN [res |-> Panic, index |-> [ix EXCEPT !.reuse = rest], id |-> None]
             ELSE [res |-> Ok,
                   index |-> [reuse |-> rest,
                              index |-> [ix.index EXCEPT ![id + 1] = Some(node)]],
                   id |-> id]
    ELSE [res |-> Ok,
          index |-> [ix EXCEPT !.index = Append(ix.index, Some(node))],
          id |-> Len(ix.index)]

\* The error, if any, of resolving a handle (shared by get, get_mut, remove).
DirectVecIndex_get(ix, id) ==
    IF id = None THEN [res |-> ErrNone, node |-> <<>>]
    ELSE IF id >= Len(ix.index) THEN [res |-> ErrOutOfBounds(id), node |-> <<>>]
    ELSE IF ix.index[id + 1] = <<>> THEN [res |-> ErrEmpty(id), node |-> <<>>]
    ELSE [res |-> Ok, node |-> ix.index[id + 1][1]]

\* get_mut(id)?.field = value, for the two fields the code assigns.
DirectVecIndex_get_mut(ix, id, field, value) ==
    IF id = None THEN [res |-> ErrNone, index |-> ix]
    ELSE IF id >= Len(ix.index) THEN [res |-> ErrOutOfBounds(id), index |-> ix]
    ELSE IF ix.index[id + 1] = <<>> THEN [res |-> ErrEmpty(id), index |-> ix]
    ELSE LET n == ix.index[id + 1][1]
             m == IF field = "left" THEN [n EXCEPT !.left = value]
                                    ELSE [n EXCEPT !.right = value]
         IN  [res |-> Ok, index |-> [ix EXCEPT !.index[id + 1] = Some(m)]]

DirectVecIndex_remove(ix, id) ==
    IF id = None THEN [res |-> ErrNone, index |-> ix, node |-> <<>>]
    ELSE IF id >= Len(ix.index) THEN [res |-> ErrOutOfBounds(id), index |-> ix, node |-> <<>>]
    ELSE IF ix.index[id + 1] = <<>> THEN [res |-> ErrEmpty(id), index |-> ix, node |-> <<>>]
    ELSE [res |-> Ok,
          index |-> [reuse |-> Append(ix.reuse, id),
                     index |-> [ix.index EXCEPT ![id + 1] = <<>>]],
          node |-> ix.index[id + 1][1]]

\* ------------------------------------------------------ Split / Merge core
\* Each local operator is the rest of the function body after one statement,
\* applied to that statement's result.
RECURSIVE split_nodes(_, _, _)
\* Mutant of split_nodes: going left, the node keeps the lesser part of its
\* left subtree and the greater part is handed up as the left result.
split_nodes_swapped(index, node, key) ==
    LET fail(res, ix) ==
            [res |-> res, index |-> ix, l |-> None, e |-> None, r |-> None]
        cleared(entry, m) ==
            IF m.res # Ok THEN fail(m.res, index)
            ELSE [res |-> Ok, index |-> m.index,
                  l |-> entry.left, e |-> node, r |-> entry.right]
        \* v.left = None; v.right = None through one get_mut
        found(entry, m) ==
            IF m.res # Ok THEN fail(m.res, index)
            ELSE cleared(entry, DirectVecIndex_get_mut(m.index, node, "right", None))
        left_set(s, m) ==
            IF m.res # Ok THEN fail(m.res, s.index)
            ELSE [res |-> Ok, index |-> m.index, l |-> s.l, e |-> s.e, r |-> node]
        went_left(s) ==
            IF s.res # Ok THEN s
            ELSE left_set([s EXCEPT !.l = s.r, !.r = s.l],
                          DirectVecIndex_get_mut(s.index, node, "left", s.l))
        right_set(s, m) ==
            IF m.res # Ok THEN fail(m.res, s.index)
            ELSE [res |-> Ok, index |-> m.index, l |-> node, e |-> s.e, r |-> s.r]
        went_right(s) ==
            IF s.res # Ok THEN s
            ELSE right_set(s, DirectVecIndex_get_mut(s.index, node, "right", s.l))
        got(g) ==
            IF g.res # Ok THEN fail(g.res, index)
            ELSE IF g.node.key = key
            THEN found(g.node, DirectVecIndex_get_mut(index, node, "left", None))
            ELSE IF g.node.key > key
            THEN went_left(split_nodes(index, g.node.left, key))
            ELSE went_right(split_nodes(index, g.node.right, key))
    IN  IF node = None THEN fail(Ok, index)
        ELSE got(DirectVecIndex_get(index, node))

\* Mutant of split_nodes: going left, the node's left handle is not
\* reassigned to the greater part of its left subtree.
split_nodes_keeps_left(index, node, key) ==
    LET fail(res, ix) ==
            [res |-> res, index |-> ix, l |-> None, e |-> None, r |-> None]
        cleared(entry, m) ==
            IF m.res # Ok THEN fail(m.res, index)
            ELSE [res |-> Ok, index |-> m.index,
                  l |-> entry.left, e |-> node, r |-> entry.right]
        \* v.left = None; v.right = None through one get_mut
        found(entry, m) ==
            IF m.res # Ok THEN fail(m.res, index)
            ELSE cleared(entry, DirectVecIndex_get_mut(m.index, node, "right", None))
        left_set(s, m) ==
            IF m.res # Ok THEN fail(m.res, s.index)
            ELSE [res |-> Ok, index |-> m.index, l |-> s.l, e |-> s.e, r |-> node]
        went_left(s) ==
            IF s.res # Ok THEN s
            ELSE left_set(s, [res |-> Ok, index |-> s.index])
        right_set(s, m) ==
            IF m.res # Ok THEN fail(m.res, s.index)
            ELSE [res |-> Ok, index |-> m.index, l |-> node, e |-> s.e, r |-> s.r]
        went_right(s) ==
            IF s.res # Ok THEN s
            ELSE right_set(s, DirectVecIndex_get_mut(s.index, node, "right", s.l))
        got(g) ==
            IF g.res # Ok THEN fail(g.res, index)
            ELSE IF g.node.key = key
            THEN found(g.node, DirectVecIndex_get_mut(index, node, "left", None))
            ELSE IF g.node.key > key
            THEN went_left(split_nodes(index, g.node.left, key))
            ELSE went_right(split_nodes(index, g.node.right, key))
    IN  IF node = None THEN fail(Ok, index)
        ELSE got(DirectVecIndex_get(index, node))

\* Mutant of split_nodes: the right handle of the entry found is not cleared.
split_nodes_entry_keeps_right(index, node, key) ==
    LET fail(res, ix) ==
            [res |-> res, index |-> ix, l |-> None, e |-> None, r |-> None]
        cleared(entry, m) ==
            IF m.res # Ok THEN fail(m.res, index)
            ELSE [res |-> Ok, index |-> m.index,
                  l |-> entry.left, e |-> node, r |-> entry.right]
        \* v.left = None; v.right = None through one get_mut
        found(entry, m) ==
            IF m.res # Ok THEN fail(m.res, index)
            ELSE cleared(entry, DirectVecIndex_get_mut(m.index, node, "right", entry.right))
        left_set(s, m) ==
            IF m.res # Ok THEN fail(m.res, s.index)
            ELSE [res |-> Ok, index |-> m.index, l |-> s.l, e |-> s.e, r |-> node]
        went_left(s) ==
            IF s.res # Ok THEN s
            ELSE left_set(s, DirectVecIndex_get_mut(s.index, node, "left", s.r))
        right_set(s, m) ==
            IF m.res # Ok THEN fail(m.res, s.index)
            ELSE [res |-> Ok, index |-> m.index, l |-> node, e |-> s.e, r |-> s.r]
        went_right(s) ==
            IF s.res # Ok THEN s
            ELSE right_set(s, DirectVecIndex_get_mut(s.index, node, "right", s.l))
        got(g) ==
            IF g.res # Ok THEN fail(g.res, index)
            ELSE IF g.node.key = key
            THEN found(g.node, DirectVecIndex_get_mut(index, node, "left", None))
            ELSE IF g.node.key > key
            THEN went_left(split_nodes(index, g.node.left, key))
            ELSE went_right(split_nodes(index, g.node.right, key))
    IN  IF node = None THEN fail(Ok, index)
        ELSE got(DirectVecIndex_get(index, node))

split_nodes(index, node, key) ==
    LET fail(res, ix) ==
            [res |-> res, index |-> ix, l |-> None, e |-> None, r |-> None]
        cleared(entry, m) ==
            IF m.res # Ok THEN fail(m.res, index)
            ELSE [res |-> Ok, index |-> m.index,
                  l |-> entry.left, e |-> node, r |-> entry.right]
        \* v.left = None; v.right = None through one get_mut
        found(entry, m) ==
            IF m.res # Ok THEN fail(m.res, index)
            ELSE cleared(entry, DirectVecIndex_get_mut(m.index, node, "right", None))
        left_set(s, m) ==
            IF m.res # Ok THEN fail(m.res, s.index)
            ELSE [res |-> Ok, index |-> m.index, l |-> s.l, e |-> s.e, r |-> node]
        went_left(s) ==
            IF s.res # Ok THEN s
            ELSE left_set(s, DirectVecIndex_get_mut(s.index, node, "left", s.r))
        right_set(s, m) ==
            IF m.res # Ok THEN fail(m.res, s.index)
            ELSE [res |-> Ok, index |-> m.index, l |-> node, e |-> s.e, r |-> s.r]
        went_right(s) ==
            IF s.res # Ok THEN s
            ELSE right_set(s, DirectVecIndex_get_mut(s.index, node, "right", s.l))
        got(g) ==
            IF g.res # Ok THEN fail(g.res, index)
            ELSE IF g.node.key = key
            THEN found(g.node, DirectVecIndex_get_mut(index, node, "left", None))
            ELSE IF g.node.key > key
            THEN went_left(split_nodes(index, g.node.left, key))
            ELSE went_right(split_nodes(index, g.node.right, key))
    IN  IF node = None THEN fail(Ok, index)
        ELSE got(DirectVecIndex_get(index, node))

\* Treap::split consumes the container and returns the Split record.
split(t, key) ==
    LET wrap(s) ==
            [res |-> s.res, left |-> s.l, entry |-> s.e, right |-> s.r,
             index |-> s.index]
    IN  wrap(split_nodes(t.index, t.root, key))

RECURSIVE merge_nodes(_, _, _)
\* Mutant of merge_nodes: the comparison of the two root priorities is
\* inverted, so the root of lesser priority becomes the new root.
merge_nodes_lesser_wins(index, left, right) ==
    LET fail(res, ix) == [res |-> res, index |-> ix, node |-> None]
        linked(sub, m, root) ==
            IF m.res # Ok THEN fail(m.res, sub.index)
            ELSE [res |-> Ok, index |-> m.index, node |-> root]
        left_wins(sub) ==
            IF sub.res # Ok THEN sub
            ELSE linked(sub, DirectVecIndex_get_mut(sub.index, left, "right", sub.node),
                        left)
        right_wins(sub) ==
            IF sub.res # Ok THEN sub
            ELSE linked(sub, DirectVecIndex_get_mut(sub.index, right, "left", sub.node),
                        right)
        got(gl, gr) ==
            IF gl.res # Ok THEN fail(gl.res, index)
            ELSE IF gr.res # Ok THEN fail(gr.res, index)
            ELSE IF gl.node.priority < gr.node.priority
            THEN left_wins(merge_nodes(index, gl.node.right, right))
            ELSE right_wins(merge_nodes(index, left, gr.node.left))
    IN  IF left = None THEN [res |-> Ok, index |-> index, node |-> right]
        ELSE IF right = None THEN [res |-> Ok, index |-> index, node |-> left]
        ELSE got(DirectVecIndex_get(index, left), DirectVecIndex_get(index, right))

\* Mutant of merge_nodes: on equal root priorities the left root wins.
merge_nodes_left_wins_ties(index, left, right) ==
    LET fail(res, ix) == [res |-> res, index |-> ix, node |-> None]
        linked(sub, m, root) ==
            IF m.res # Ok THEN fail(m.res, sub.index)
            ELSE [res |-> Ok, index |-> m.index, node |-> root]
        left_wins(sub) ==
            IF sub.res # Ok THEN sub
            ELSE linked(sub, DirectVecIndex_get_mut(sub.index, left, "right", sub.node),
                        left)
        right_wins(sub) ==
            IF sub.res # Ok THEN sub
            ELSE linked(sub, DirectVecIndex_get_mut(sub.index, right, "left", sub.node),
                        right)
        got(gl, gr) ==
            IF gl.res # Ok THEN fail(gl.res, index)
            ELSE IF gr.res # Ok THEN fail(gr.res, index)
            ELSE IF gl.node.priority >= gr.node.priority
            THEN left_wins(merge_nodes(index, gl.node.right, right))
            ELSE right_wins(merge_nodes(index, left, gr.node.left))
    IN  IF left = None THEN [res |-> Ok, index |-> index, node |-> right]
        ELSE IF right = None THEN [res |-> Ok, index |-> index, node |-> left]
        ELSE got(DirectVecIndex_get(index, left), DirectVecIndex_get(index, right))

merge_nodes(index, left, right) ==
    LET fail(res, ix) == [res |-> res, index |-> ix, node |-> None]
        linked(sub, m, root) ==
            IF m.res # Ok THEN fail(m.res, sub.index)
            ELSE [res |-> Ok, index |-> m.index, node |-> root]
        left_wins(sub) ==
            IF sub.res # Ok THEN sub
            ELSE linked(sub, DirectVecIndex_get_mut(sub.index, left, "right", sub.node),
                        left)
        right_wins(sub) ==
            IF sub.res # Ok THEN sub
            ELSE linked(sub, DirectVecIndex_get_mut(sub.index, right, "left", sub.node),
                        right)
        got(gl, gr) ==
            IF gl.res # Ok THEN fail(gl.res, index)
            ELSE IF gr.res # Ok THEN fail(gr.res, index)
            ELSE IF gl.node.priority > gr.node.priority
            THEN left_wins(merge_nodes(index, gl.node.right, right))
            ELSE right_wins(merge_nodes(index, left, gr.node.left))
    IN  IF left = None THEN [res |-> Ok, index |-> index, node |-> right]
        ELSE IF right = None THEN [res |-> Ok, index |-> index, node |-> left]
        ELSE got(DirectVecIndex_get(index, left), DirectVecIndex_get(index, right))

\* ------------------------------------------------------ Public operations
Treap_new == [root |-> None, index |-> DirectVecIndex_new]

len(t) == DirectVecIndex_size(t.index)

\* Every mutating operation returns [res, out, treap]: the Result tag, the
\* Ok payload and the container the call leaves behind.  Those that begin
\* with mem::swap(&mut tmp, self) leave Treap_new behind when `?` returns
\* early.  Each local operator below is the rest of the function body after
\* one statement, applied to that statement's result.
Swapped(res) == [res |-> res, out |-> <<>>, treap |-> Treap_new]

Taken(node) ==
    IF node = <<>> THEN <<>> ELSE Some(<<node[1].priority, node[1].value>>)

\* Mutant of insert: the replaced entry is read but its slot is not freed.
insert_leaks(t, key, priority, value) ==
    LET done(node, m2) ==
            IF m2.res # Ok THEN Swapped(m2.res)
            ELSE [res |-> Ok, out |-> Taken(node),
                  treap |-> [root |-> m2.node, index |-> m2.index]]
        merge2(spl, node, m1) ==
            IF m1.res # Ok THEN Swapped(m1.res)
            ELSE done(node, merge_nodes(m1.index, m1.node, spl.right))
        merge1(spl, node, new) ==
            IF new.res # Ok THEN Swapped(new.res)
            ELSE merge2(spl, node, merge_nodes(new.index, spl.left, new.id))
        removed(spl, rm) ==
            merge1(spl, IF rm.res = Ok THEN Some(rm.node) ELSE <<>>,
                   DirectVecIndex_insert(spl.index,
                                         Node(key, priority, value, None, None)))
        splitted(spl) ==
            IF spl.res # Ok THEN Swapped(spl.res)
            ELSE removed(spl, DirectVecIndex_remove(spl.index, spl.entry))
    IN  splitted(split(t, key))

insert(t, key, priority, value) ==
    LET done(node, m2) ==
            IF m2.res # Ok THEN Swapped(m2.res)
            ELSE [res |-> Ok, out |-> Taken(node),
                  treap |-> [root |-> m2.node, index |-> m2.index]]
        merge2(spl, node, m1) ==
            IF m1.res # Ok THEN Swapped(m1.res)
            ELSE done(node, merge_nodes(m1.index, m1.node, spl.right))
        merge1(spl, node, new) ==
            IF new.res # Ok THEN Swapped(new.res)
            ELSE merge2(spl, node, merge_nodes(new.index, spl.left, new.id))
        removed(spl, rm) ==
            merge1(spl, IF rm.res = Ok THEN Some(rm.node) ELSE <<>>,
                   DirectVecIndex_insert(rm.index,
                                         Node(key, priority, value, None, None)))
        splitted(spl) ==
            IF spl.res # Ok THEN Swapped(spl.res)
            ELSE removed(spl, DirectVecIndex_remove(spl.index, spl.entry))
    IN  splitted(split(t, key))

\* Mutant of remove: the right half of the split is not merged back.
remove_drops_right(t, key) ==
    LET done(node, m) ==
            IF m.res # Ok THEN Swapped(m.res)
            ELSE [res |-> Ok, out |-> Taken(node),
                  treap |-> [root |-> m.node, index |-> m.index]]
        removed(spl, rm) ==
            done(IF rm.res = Ok THEN Some(rm.node) ELSE <<>>,
                 merge_nodes(rm.index, spl.left, None))
        splitted(spl) ==
            IF spl.res # Ok THEN Swapped(spl.res)
            ELSE removed(spl, DirectVecIndex_remove(spl.index, spl.entry))
    IN  splitted(split(t, key))

remove(t, key) ==
    LET done(node, m) ==
            IF m.res # Ok THEN Swapped(m.res)
            ELSE [res |-> Ok, out |-> Taken(node),
                  treap |-> [root |-> m.node, index |-> m.index]]
        removed(spl, rm) ==
            done(IF rm.res = Ok THEN Some(rm.node) ELSE <<>>,
                 merge_nodes(rm.index, spl.left, spl.right))
        splitted(spl) ==
            IF spl.res # Ok THEN Swapped(spl.res)
            ELSE removed(spl, DirectVecIndex_remove(spl.index, spl.entry))
    IN  splitted(split(t, key))

\* get / get_mut / priority: the three local search_node functions.
RECURSIVE get_search_node(_, _, _)
\* Mutant of get's search_node: the descent takes the wrong child.
get_search_node_wrong_child(index, node, key) ==
    IF node = None THEN [res |-> Ok, out |-> <<>>]
    ELSE
    LET g == DirectVecIndex_get(index, node)
        entry == g.node
    IN  IF g.res # Ok THEN [res |-> g.res, out |-> <<>>]
        ELSE IF entry.key = key
        THEN [res |-> Ok, out |-> Some(<<entry.priority, entry.value>>)]
        ELSE IF entry.key > key
        THEN get_search_node(index, entry.right, key)
        ELSE get_search_node(index, entry.left, key)

get_search_node(index, node, key) ==
    IF node = None THEN [res |-> Ok, out |-> <<>>]
    ELSE
    LET g == DirectVecIndex_get(index, node)
        entry == g.node
    IN  IF g.res # Ok THEN [res |-> g.res, out |-> <<>>]
        ELSE IF entry.key = key
        THEN [res |-> Ok, out |-> Some(<<entry.priority, entry.value>>)]
        ELSE IF entry.key > key
        THEN get_search_node(index, entry.left, key)
        ELSE get_search_node(index, entry.right, key)

get(t, key) == get_search_node(t.index, t.root, key)

\* get_mut first classifies the node (Found / Left / Right), then resolves
\* the found handle a second time.
RECURSIVE get_mut_search_node(_, _, _)
get_mut_search_node(index, node, key) ==
    IF node = None THEN [res |-> Ok, out |-> <<>>]
    ELSE
    LET g == DirectVecIndex_get(index, node)
        entry == g.node
        action == IF entry.key = key THEN <<"Found", node>>
                  ELSE IF entry.key > key THEN <<"Left", entry.left>>
                  ELSE <<"Right", entry.right>>
    IN  IF g.res # Ok THEN [res |-> g.res, out |-> <<>>]
        ELSE IF action[1] = "Found"
        THEN LET node_ref == DirectVecIndex_get(index, action[2])
             IN  IF node_ref.res # Ok THEN [res |-> node_ref.res, out |-> <<>>]
                 ELSE [res |-> Ok,
                       out |-> Some(<<node_ref.node.priority, node_ref.node.value>>)]
        ELSE get_mut_search_node(index, action[2], key)

get_mut(t, key) == get_mut_search_node(t.index, t.root, key)

RECURSIVE priority_search_node(_, _, _)
priority_search_node(index, node, key) ==
    IF node = None THEN [res |-> Ok, out |-> <<>>]
    ELSE
    LET g == DirectVecIndex_get(index, node)
        entry == g.node
    IN  IF g.res # Ok THEN [res |-> g.res, out |-> <<>>]
        ELSE IF entry.key = key
        THEN [res |-> Ok, out |-> Some(entry.priority)]
        ELSE IF entry.key > key
        THEN priority_search_node(index, entry.left, key)
        ELSE priority_search_node(index, entry.right, key)

priority(t, key) == priority_search_node(t.index, t.root, key)

\* Mutant of prioritize: the entry is reinserted with its old priority.
prioritize_keeps_priority(t, key, new_p) ==
    LET done(old_p, m2) ==
            IF m2.res # Ok THEN Swapped(m2.res)
            ELSE [res |-> Ok, out |-> old_p,
                  treap |-> [root |-> m2.node, index |-> m2.index]]
        merge2(spl, old_p, m1) ==
            IF m1.res # Ok THEN Swapped(m1.res)
            ELSE done(old_p, merge_nodes(m1.index, m1.node, spl.right))
        reinserted(spl, old_p, ins) ==
            IF ins.res # Ok THEN Swapped(ins.res)
            ELSE merge2(spl, old_p, merge_nodes(ins.index, spl.left, ins.id))
        removed(spl, rm) ==
            IF rm.res = Ok
            THEN reinserted(spl, Some(rm.node.priority),
                            DirectVecIndex_insert(rm.index,
                                Node(rm.node.key, rm.node.priority, rm.node.value, None, None)))
            ELSE merge2(spl, <<>>, merge_nodes(rm.index, spl.left, None))
        splitted(spl) ==
            IF spl.res # Ok THEN Swapped(spl.res)
            ELSE removed(spl, DirectVecIndex_remove(spl.index, spl.entry))
    IN  splitted(split(t, key))

prioritize(t, key, new_p) ==
    LET done(old_p, m2) ==
            IF m2.res # Ok THEN Swapped(m2.res)
            ELSE [res |-> Ok, out |-> old_p,
                  treap |-> [root |-> m2.node, index |-> m2.index]]
        merge2(spl, old_p, m1) ==
            IF m1.res # Ok THEN Swapped(m1.res)
            ELSE done(old_p, merge_nodes(m1.index, m1.node, spl.right))
        reinserted(spl, old_p, ins) ==
            IF ins.res # Ok THEN Swapped(ins.res)
            ELSE merge2(spl, old_p, merge_nodes(ins.index, spl.left, ins.id))
        removed(spl, rm) ==
            IF rm.res = Ok
            THEN reinserted(spl, Some(rm.node.priority),
                            DirectVecIndex_insert(rm.index,
                                Node(rm.node.key, new_p, rm.node.value, None, None)))
            ELSE merge2(spl, <<>>, merge_nodes(rm.index, spl.left, None))
        splitted(spl) ==
            IF spl.res # Ok THEN Swapped(spl.res)
            ELSE removed(spl, DirectVecIndex_remove(spl.index, spl.entry))
    IN  splitted(split(t, key))

\* Mutant of pop: the new root is the old root's left child alone.
pop_left_only(t) ==
    LET merged(node, m) ==
            IF m.res # Ok
            THEN [res |-> m.res, out |-> <<>>,
                  treap |-> [root |-> None, index |-> m.index]]
            ELSE [res |-> Ok,
                  out |-> Some(<<node.key, node.priority, node.value>>),
                  treap |-> [root |-> m.node, index |-> m.index]]
        removed(rm) ==
            IF rm.res # Ok
            THEN [res |-> rm.res, out |-> <<>>,
                  treap |-> [root |-> None, index |-> rm.index]]
            ELSE merged(rm.node, merge_nodes(rm.index, rm.node.left, None))
    IN  IF t.root = None THEN [res |-> Ok, out |-> <<>>, treap |-> t]
        ELSE removed(DirectVecIndex_remove(t.index, t.root))

\* Mutant of pop: when the two children of the old root have equal
\* priorities the left one becomes the new root.
pop_left_wins_ties(t) ==
    LET merged(node, m) ==
            IF m.res # Ok
            THEN [res |-> m.res, out |-> <<>>,
                  treap |-> [root |-> None, index |-> m.index]]
            ELSE [res |-> Ok,
                  out |-> Some(<<node.key, node.priority, node.value>>),
                  treap |-> [root |-> m.node, index |-> m.index]]
        removed(rm) ==
            IF rm.res # Ok
            THEN [res |-> rm.res, out |-> <<>>,
                  treap |-> [root |-> None, index |-> rm.index]]
            ELSE merged(rm.node, merge_nodes_left_wins_ties(rm.index, rm.node.left, rm.node.right))
    IN  IF t.root = None THEN [res |-> Ok, out |-> <<>>, treap |-> t]
        ELSE removed(DirectVecIndex_remove(t.index, t.root))

\* pop works on self in place: root.take() has already cleared the root when
\* a `?` returns early.
pop(t) ==
    LET merged(node, m) ==
            IF m.res # Ok
            THEN [res |-> m.res, out |-> <<>>,
                  treap |-> [root |-> None, index |-> m.index]]
            ELSE [res |-> Ok,
                  out |-> Some(<<node.key, node.priority, node.value>>),
                  treap |-> [root |-> m.node, index |-> m.index]]
        removed(rm) ==
            IF rm.res # Ok
            THEN [res |-> rm.res, out |-> <<>>,
                  treap |-> [root |-> None, index |-> rm.index]]
            ELSE merged(rm.node, merge_nodes(rm.index, rm.node.left, rm.node.right))
    IN  IF t.root = None THEN [res |-> Ok, out |-> <<>>, treap |-> t]
        ELSE removed(DirectVecIndex_remove(t.index, t.root))

Max(a, b) == IF a >= b THEN a ELSE b

RECURSIVE depth_node(_, _)
\* Mutant of depth_node: the depths of the two subtrees are added.
depth_node_counts(index, node) ==
    LET both(l, r) ==
            IF l.res # Ok THEN l
            ELSE IF r.res # Ok THEN r
            ELSE [res |-> Ok, out |-> 1 + l.out + r.out]
        got(g) ==
            IF g.res # Ok THEN [res |-> g.res, out |-> 0]
            ELSE both(depth_node(index, g.node.left), depth_node(index, g.node.right))
    IN  IF node = None THEN [res |-> Ok, out |-> 0]
        ELSE got(DirectVecIndex_get(index, node))

depth_node(index, node) ==
    LET both(l, r) ==
            IF l.res # Ok THEN l
            ELSE IF r.res # Ok THEN r
            ELSE [res |-> Ok, out |-> 1 + Max(l.out, r.out)]
        got(g) ==
            IF g.res # Ok THEN [res |-> g.res, out |-> 0]
            ELSE both(depth_node(index, g.node.left), depth_node(index, g.node.right))
    IN  IF node = None THEN [res |-> Ok, out |-> 0]
        ELSE got(DirectVecIndex_get(index, node))

depth(t) == depth_node(t.index, t.root)

RECURSIVE drop_node(_, _, _)
\* Mutant of drop_node: the right subtree of a dropped node is not dropped.
drop_node_left_only(index, node, p) ==
    LET left_dropped(entry, dl) ==
            IF dl.res # Ok THEN dl
            ELSE dl
        removed(rm) ==
            IF rm.res # Ok THEN [res |-> rm.res, index |-> rm.index]
            ELSE left_dropped(rm.node, drop_node(rm.index, rm.node.left, p))
    IN  IF node = None THEN [res |-> Ok, index |-> index]
        ELSE removed(DirectVecIndex_remove(index, node))

drop_node(index, node, p) ==
    LET left_dropped(entry, dl) ==
            IF dl.res # Ok THEN dl
            ELSE drop_node(dl.index, entry.right, p)
        removed(rm) ==
            IF rm.res # Ok THEN [res |-> rm.res, index |-> rm.index]
            ELSE left_dropped(rm.node, drop_node(rm.index, rm.node.left, p))
    IN  IF node = None THEN [res |-> Ok, index |-> index]
        ELSE removed(DirectVecIndex_remove(index, node))

\* check_node returns true when the caller must clear its handle to `node`.
RECURSIVE check_node(_, _, _)
\* Mutant of check_node: an entry whose priority equals the threshold is
\* dropped too.
check_node_inclusive(index, node, p) ==
    LET fail(res, ix) == [res |-> res, index |-> ix, out |-> FALSE]
        right_cleared(mr) ==
            IF mr.res # Ok THEN fail(mr.res, mr.index)
            ELSE [res |-> Ok, index |-> mr.index, out |-> FALSE]
        right_checked(cr) ==
            IF cr.res # Ok THEN cr
            ELSE right_cleared(IF cr.out
                               THEN DirectVecIndex_get_mut(cr.index, node, "right", None)
                               ELSE [res |-> Ok, index |-> cr.index])
        left_cleared(entry, ml) ==
            IF ml.res # Ok THEN fail(ml.res, ml.index)
            ELSE right_checked(check_node(ml.index, entry.right, p))
        left_checked(entry, cl) ==
            IF cl.res # Ok THEN cl
            ELSE left_cleared(entry,
                              IF cl.out
                              THEN DirectVecIndex_get_mut(cl.index, node, "left", None)
                              ELSE [res |-> Ok, index |-> cl.index])
        dropped(d) == [res |-> d.res, index |-> d.index, out |-> d.res = Ok]
        got(g) ==
            IF g.res # Ok THEN fail(g.res, index)
            ELSE IF g.node.priority <= p THEN dropped(drop_node(index, node, p))
            ELSE left_checked(g.node, check_node(index, g.node.left, p))
    IN  IF node = None THEN [res |-> Ok, index |-> index, out |-> TRUE]
        ELSE got(DirectVecIndex_get(index, node))

\* Mutant of check_node: the left handle of a kept node is cleared whether
\* or not the left child was dropped.
check_node_clears_left(index, node, p) ==
    LET fail(res, ix) == [res |-> res, index |-> ix, out |-> FALSE]
        right_cleared(mr) ==
            IF mr.res # Ok THEN fail(mr.res, mr.index)
            ELSE [res |-> Ok, index |-> mr.index, out |-> FALSE]
        right_checked(cr) ==
            IF cr.res # Ok THEN cr
            ELSE right_cleared(IF cr.out
                               THEN DirectVecIndex_get_mut(cr.index, node, "right", None)
                               ELSE [res |-> Ok, index |-> cr.index])
        left_cleared(entry, ml) ==
            IF ml.res # Ok THEN fail(ml.res, ml.index)
            ELSE right_checked(check_node(ml.index, entry.right, p))
        left_checked(entry, cl) ==
            IF cl.res # Ok THEN cl
            ELSE left_cleared(entry,
                              IF TRUE
                              THEN DirectVecIndex_get_mut(cl.index, node, "left", None)
                              ELSE [res |-> Ok, index |-> cl.index])
        dropped(d) == [res |-> d.res, index |-> d.index, out |-> d.res = Ok]
        got(g) ==
            IF g.res # Ok THEN fail(g.res, index)
            ELSE IF g.node.priority < p THEN dropped(drop_node(index, node, p))
            ELSE left_checked(g.node, check_node(index, g.node.left, p))
    IN  IF node = None THEN [res |-> Ok, index |-> index, out |-> TRUE]
        ELSE got(DirectVecIndex_get(index, node))

check_node(index, node, p) ==
    LET fail(res, ix) == [res |-> res, index |-> ix, out |-> FALSE]
        right_cleared(mr) ==
            IF mr.res # Ok THEN fail(mr.res, mr.index)
            ELSE [res |-> Ok, index |-> mr.index, out |-> FALSE]
        right_checked(cr) ==
            IF cr.res # Ok THEN cr
            ELSE right_cleared(IF cr.out
                               THEN DirectVecIndex_get_mut(cr.index, node, "right", None)
                               ELSE [res |-> Ok, index |-> cr.index])
        left_cleared(entry, ml) ==
            IF ml.res # Ok THEN fail(ml.res, ml.index)
            ELSE right_checked(check_node(ml.index, entry.right, p))
        left_checked(entry, cl) ==
            IF cl.res # Ok THEN cl
            ELSE left_cleared(entry,
                              IF cl.out
                              THEN DirectVecIndex_get_mut(cl.index, node, "left", None)
                              ELSE [res |-> Ok, index |-> cl.index])
        dropped(d) == [res |-> d.res, index |-> d.index, out |-> d.res = Ok]
        got(g) ==
            IF g.res # Ok THEN fail(g.res, index)
            ELSE IF g.node.priority < p THEN dropped(drop_node(index, node, p))
            ELSE left_checked(g.node, check_node(index, g.node.left, p))
    IN  IF node = None THEN [res |-> Ok, index |-> index, out |-> TRUE]
        ELSE got(DirectVecIndex_get(index, node))

\* Mutant of cut: the root handle is kept when check_node asks to clear it.
cut_keeps_root(t, p) ==
    LET checked(c) ==
            IF c.res # Ok
            THEN [res |-> c.res, out |-> <<>>, treap |-> [t EXCEPT !.index = c.index]]
            ELSE [res |-> Ok, out |-> <<>>,
                  treap |-> [root |-> t.root,
                             index |-> c.index]]
    IN  checked(check_node(t.index, t.root, p))

cut(t, p) ==
    LET checked(c) ==
            IF c.res # Ok
            THEN [res |-> c.res, out |-> <<>>, treap |-> [t EXCEPT !.index = c.index]]
            ELSE [res |-> Ok, out |-> <<>>,
                  treap |-> [root |-> IF c.out THEN None ELSE t.root,
                             index |-> c.index]]
    IN  checked(check_node(t.index, t.root, p))

\* pri is the Vec<Reverse<&P>>: priorities in decreasing order.  binary_search
\* answers Ok(i) for the position of an equal element, Err(i) for the
\* insertion point (both 0-based).
binary_search(pri, p) ==
    IF \E i \in 1..Len(pri) : pri[i] = p
    THEN <<"Ok", (CHOOSE i \in 1..Len(pri) : pri[i] = p) - 1>>
    ELSE <<"Err", Cardinality({i \in 1..Len(pri) : pri[i] > p})>>

\* Vec::insert(i, x), i 0-based.
VecInsert(s, i, x) == SubSeq(s, 1, i) \o <<x>> \o SubSeq(s, i + 1, Len(s))

\* Mutant of nth_priority_node: the children of a node whose priority is
\* already listed are not enqueued.
nth_priority_node_prunes_equal(index, node, n, queue, pri) ==
    LET children(entry, check_ch) ==
            (IF check_ch /\ entry.left # None THEN <<entry.left>> ELSE <<>>)
            \o (IF check_ch /\ entry.right # None THEN <<entry.right>> ELSE <<>>)
        searched(entry, bs) ==
            [res |-> Ok,
             queue |-> queue \o children(entry, bs[1] = "Err" /\ bs[2] < n),
             pri |-> IF bs[1] = "Err" /\ bs[2] < n
                     THEN VecInsert(pri, bs[2], entry.priority)
                     ELSE pri]
        got(g) ==
            IF g.res # Ok THEN [res |-> g.res, queue |-> queue, pri |-> pri]
            ELSE searched(g.node, binary_search(pri, g.node.priority))
    IN  IF node = None THEN [res |-> Ok, queue |-> queue, pri |-> pri]
        ELSE got(DirectVecIndex_get(index, node))

nth_priority_node(index, node, n, queue, pri) ==
    LET children(entry, check_ch) ==
            (IF check_ch /\ entry.left # None THEN <<entry.left>> ELSE <<>>)
            \o (IF check_ch /\ entry.right # None THEN <<entry.right>> ELSE <<>>)
        searched(entry, bs) ==
            [res |-> Ok,
             queue |-> queue \o children(entry, bs[2] < n),
             pri |-> IF bs[1] = "Err" /\ bs[2] < n
                     THEN VecInsert(pri, bs[2], entry.priority)
                     ELSE pri]
        got(g) ==
            IF g.res # Ok THEN [res |-> g.res, queue |-> queue, pri |-> pri]
            ELSE searched(g.node, binary_search(pri, g.node.priority))
    IN  IF node = None THEN [res |-> Ok, queue |-> queue, pri |-> pri]
        ELSE got(DirectVecIndex_get(index, node))

\* while let Some(node) = queue.pop_front() { nth_priority_node(..)? }
RECURSIVE nth_priority_loop(_, _, _, _)
nth_priority_loop(index, n, queue, pri) ==
    LET visited(s) ==
            IF s.res # Ok THEN s
            ELSE nth_priority_loop(index, n, s.queue, s.pri)
    IN  IF queue = <<>> THEN [res |-> Ok, queue |-> queue, pri |-> pri]
        ELSE visited(nth_priority_node(index, Head(queue), n, Tail(queue), pri))

\* pri[n-1] with n = 0: n-1 overflows (panic in a debug build) or wraps to
\* usize::MAX and indexes out of bounds (panic in a release build).
nth_priority(t, n) ==
    LET looped(rest) ==
            IF rest.res # Ok THEN [res |-> rest.res, out |-> <<>>]
            ELSE IF Len(rest.pri) >= n
            THEN IF n = 0 THEN [res |-> Panic, out |-> <<>>]
                 ELSE [res |-> Ok, out |-> Some(rest.pri[n])]
            ELSE [res |-> Ok, out |-> <<>>]
        started(first) ==
            IF first.res # Ok THEN [res |-> first.res, out |-> <<>>]
            ELSE looped(nth_priority_loop(t.index, n, first.queue, first.pri))
    IN  started(nth_priority_node(t.index, t.root, n, <<>>, <<>>))

\* ---------------------------------------------------------- state machine
\* treap  the container (root handle and arena)
\* ref    the reference map key -> Option<(priority, value)>, updated by the
\*        same calls
\* last   the call whose result the caller is holding: its name, arguments,
\*        Result tag, Ok payload and the container it was made on (pre);
\*        Idle when no result is held.  The caller makes one call at a time
\*        and takes the result (Return) before the next.
VARIABLES treap, ref, last

vars == <<treap, ref, last>>

Call(op, k, p, v, n, r) ==
    [op |-> op, key |-> k, priority |-> p, value |-> v, n |-> n,
     res |-> r.res, out |-> r.out, pre |-> treap]

Idle ==
    [op |-> "idle", key |-> None, priority |-> None, value |-> None, n |-> None,
     res |-> Ok, out |-> <<>>, pre |-> Treap_new]

Init ==
    /\ treap = Treap_new
    /\ ref = [k \in KeyT |-> <<>>]
    /\ last = Idle

\* The effect of a mutating call with result r; newref is the reference map
\* after it.
Mutate(op, k, p, v, r, newref) ==
    /\ treap' = r.treap
    /\ ref' = newref
    /\ last' = Call(op, k, p, v, None, r)

\* The effect of a call through &self, or of one that only hands out
\* references, with result r.
Query(op, k, n, r) ==
    /\ last' = Call(op, k, None, None, n, r)
    /\ UNCHANGED <<treap, ref>>

Insert(k, p, v) ==
    /\ last = Idle
    /\ Mutate("insert", k, p, v, insert(treap, k, p, v),
              [ref EXCEPT ![k] = Some(<<p, v>>)])

Remove(k) ==
    /\ last = Idle
    /\ Mutate("remove", k, None, None, remove(treap, k), [ref EXCEPT ![k] = <<>>])

Get(k) ==
    /\ last = Idle
    /\ Query("get", k, None, get(treap, k))

GetMut(k) ==
    /\ last = Idle
    /\ Query("get_mut", k, None, get_mut(treap, k))

Priority(k) ==
    /\ last = Idle
    /\ Query("priority", k, None, priority(treap, k))

Prioritize(k, p) ==
    /\ last = Idle
    /\ Mutate("prioritize", k, p, None, prioritize(treap, k, p),
              IF ref[k] = <<>> THEN ref
              ELSE [ref EXCEPT ![k] = Some(<<p, ref[k][1][2]>>)])

\* The reference map drops the key pop returned.
PopRef(r) == IF r.out = <<>> THEN ref ELSE [ref EXCEPT ![r.out[1][1]] = <<>>]

Pop ==
    /\ last = Idle
    /\ Mutate("pop", None, None, None, pop(treap), PopRef(pop(treap)))

DepthResult(d) == [res |-> d.res, out |-> Some(d.out)]

Depth ==
    /\ last = Idle
    /\ Query("depth", None, None, DepthResult(depth(treap)))

Cut(p) ==
    /\ last = Idle
    /\ Mutate("cut", None, p, None, cut(treap, p),
              [k \in KeyT |->
                 IF ref[k] # <<>> /\ ref[k][1][1] < p THEN <<>> ELSE ref[k]])

NthPriority(n) ==
    /\ last = Idle
    /\ Query("nth_priority", None, n, nth_priority(treap, n))

\* The caller takes the result of the call.
Return ==
    /\ last # Idle
    /\ last' = Idle
    /\ UNCHANGED <<treap, ref>>

Next ==
    \/ \E k \in KeyT, p \in PriT, v \in ValT : Insert(k, p, v)
    \/ \E k \in KeyT : Remove(k)
    \/ \E k \in KeyT : Get(k)
    \/ \E k \in KeyT : GetMut(k)
    \/ \E k \in KeyT : Priority(k)
    \/ \E k \in KeyT, p \in PriT : Prioritize(k, p)
    \/ Pop
    \/ Depth
    \/ \E p \in PriT : Cut(p)
    \/ \E n \in NthT : NthPriority(n)
    \/ Return

Spec == Init /\ [][Next]_vars

\* ------------------------------------------------- reading the container
Slots(t) == t.index.index

IsLive(t, id) ==
    /\ id # None
    /\ id < Len(Slots(t))
    /\ Slots(t)[id + 1] # <<>>

LiveIds(t) == {id \in 0..(Len(Slots(t)) - 1) : IsLive(t, id)}

NodeOf(t, id) == Slots(t)[id + 1][1]

\* The left-entry-right walk from a handle, as the sequence of ids met.  The
\* fuel bounds the walk by the table length, so that it ends on any arena.
RECURSIVE InOrder(_, _, _)
InOrder(t, node, fuel) ==
    IF fuel = 0 \/ ~IsLive(t, node) THEN <<>>
    ELSE InOrder(t, NodeOf(t, node).left, fuel - 1)
         \o <<node>>
         \o InOrder(t, NodeOf(t, node).right, fuel - 1)

Fuel(t) == Len(Slots(t)) + 1

Walk(t) == InOrder(t, t.root, Fuel(t))

Range(seq) == {seq[i] : i \in 1..Len(seq)}

SubtreeKeys(t, node) ==
    {NodeOf(t, id).key : id \in Range(InOrder(t, node, Fuel(t)))}

\* The keys and entries get finds.
Keys(t) == {k \in KeyT : get(t, k).out # <<>>}

Entries(t) ==
    {<<k, get(t, k).out[1][1], get(t, k).out[1][2]>> : k \in Keys(t)}

Priorities(t) == {e[2] : e \in Entries(t)}

\* ------------------------------------------------------------------ claims

\* C1: binary-search-tree invariant.  In every reachable state the in-order
\* walk from the root yields strictly increasing keys, for every node the
\* keys of its left subtree are less and those of its right subtree greater
\* than its key, and no two occupied slots hold the same key.
C1_BstInvariant ==
    /\ \A i \in 1..(Len(Walk(treap)) - 1) :
          NodeOf(treap, Walk(treap)[i]).key < NodeOf(treap, Walk(treap)[i + 1]).key
    /\ \A id \in Range(Walk(treap)) :
          /\ \A k \in SubtreeKeys(treap, NodeOf(treap, id).left) :
                k < NodeOf(treap, id).key
          /\ \A k \in SubtreeKeys(treap, NodeOf(treap, id).right) :
                k > NodeOf(treap, id).key
    /\ \A i, j \in LiveIds(treap) :
          i # j => NodeOf(treap, i).key # NodeOf(treap, j).key

\* A three-node tree of depth three left behind by a prioritize that moved
\* an existing entry: split and both merges have rewired child handles.
C1_Witness ==
    /\ last.op = "prioritize"
    /\ last.out # <<>>
    /\ last.out[1] # last.priority
    /\ Len(Walk(treap)) = 3
    /\ depth(treap).out = 3

\* C2: max-heap invariant.  In every reachable state every node's priority
\* is greater than or equal to the priority of each of its direct children.
C2_HeapInvariant ==
    \A id \in LiveIds(treap) :
        /\ IsLive(treap, NodeOf(treap, id).left) =>
              NodeOf(treap, id).priority
                  >= NodeOf(treap, NodeOf(treap, id).left).priority
        /\ IsLive(treap, NodeOf(treap, id).right) =>
              NodeOf(treap, id).priority
                  >= NodeOf(treap, NodeOf(treap, id).right).priority

\* A root with two children, one of equal and one of lesser priority, after
\* an insert that replaced an entry.
C2_Witness ==
    /\ last.op = "insert"
    /\ last.out # <<>>
    /\ IsLive(treap, treap.root)
    /\ IsLive(treap, NodeOf(treap, treap.root).left)
    /\ IsLive(treap, NodeOf(treap, treap.root).right)
    /\ NodeOf(treap, NodeOf(treap, treap.root).left).priority
          = NodeOf(treap, treap.root).priority
    /\ NodeOf(treap, NodeOf(treap, treap.root).right).priority
          < NodeOf(treap, treap.root).priority

\* C3: size accounting.  In every reachable state len() is the number of
\* keys for which get returns an entry.
C3_SizeAccounting == len(treap) = Cardinality(Keys(treap))

\* Two entries in a table of three slots, one of them freed by a remove.
C3_Witness ==
    /\ last.op = "remove"
    /\ last.out # <<>>
    /\ len(treap) = 2
    /\ Len(Slots(treap)) = 3

\* C4: lookup agrees with the reference map.  In every reachable state and
\* for every key, get and get_mut return the entry and priority returns the
\* priority the reference map holds for the key, and none exactly when the
\* map holds none.
C4_LookupAgrees ==
    \A k \in KeyT :
        /\ get(treap, k) = [res |-> Ok, out |-> ref[k]]
        /\ get_mut(treap, k) = [res |-> Ok, out |-> ref[k]]
        /\ priority(treap, k)
              = [res |-> Ok,
                 out |-> IF ref[k] = <<>> THEN <<>> ELSE Some(ref[k][1][1])]

\* A get that found an entry below the root of a three-entry container whose
\* entries do not all carry the same value.
C4_Witness ==
    /\ last.op = "get"
    /\ last.out # <<>>
    /\ len(treap) = 3
    /\ NodeOf(treap, treap.root).key # last.key
    /\ \E k \in KeyT : ref[k] # <<>> /\ ref[k][1][2] # last.out[1][2]

\* C5: insert replaces.  After insert(k, p, v) on a container where k was
\* present with (p0, v0) the call has returned Some((p0, v0)) and len() is
\* unchanged; where k was absent it has returned none and len() has grown by
\* one; either way exactly one occupied slot holds key k and get(k) finds
\* (p, v).
C5_InsertReplaces ==
    last.op = "insert" =>
        /\ last.res = Ok
        /\ get(last.pre, last.key).out # <<>> =>
              /\ last.out = get(last.pre, last.key).out
              /\ len(treap) = len(last.pre)
        /\ get(last.pre, last.key).out = <<>> =>
              /\ last.out = <<>>
              /\ len(treap) = len(last.pre) + 1
        /\ get(treap, last.key).out = Some(<<last.priority, last.value>>)
        /\ Cardinality({id \in LiveIds(treap) : NodeOf(treap, id).key = last.key}) = 1

\* An insert that replaced an entry of a three-entry container by one of
\* another priority and another value.
C5_Witness ==
    /\ last.op = "insert"
    /\ last.out # <<>>
    /\ last.out[1][1] # last.priority
    /\ last.out[1][2] # last.value
    /\ len(treap) = 3

\* Claim C6 as stated: insert(k, p, v) followed immediately by remove(k)
\* makes the remove return (p, v) and leaves the key set the container held
\* before the insert.
C6_RoundTripAsStated ==
    last.op = "insert" =>
        /\ remove(treap, last.key).res = Ok
        /\ remove(treap, last.key).out = Some(<<last.priority, last.value>>)
        /\ Keys(remove(treap, last.key).treap) = Keys(last.pre)

\* C6 (amended): insert(k, p, v) followed immediately by remove(k) makes the
\* remove return (p, v) and leaves the key set the container held before the
\* insert without k: the same set when k was absent before the insert, that
\* set less k when the insert replaced an entry.
C6_RoundTrip ==
    last.op = "insert" =>
        /\ remove(treap, last.key).res = Ok
        /\ remove(treap, last.key).out = Some(<<last.priority, last.value>>)
        /\ Keys(remove(treap, last.key).treap) = Keys(last.pre) \ {last.key}

\* An insert of a key that was present, into a container of three entries
\* where the key is not at the root, ready for the remove.
C6_Witness ==
    /\ last.op = "insert"
    /\ last.key \in Keys(last.pre)
    /\ Cardinality(Keys(last.pre)) = 3
    /\ NodeOf(treap, treap.root).key # last.key

\* The container after n pops.
RECURSIVE AfterPops(_, _)
AfterPops(t, n) == IF n = 0 THEN t ELSE pop(AfterPops(t, n - 1)).treap

MaxPriority(t) == CHOOSE p \in Priorities(t) : \A q \in Priorities(t) : q <= p

\* pop on t returns an entry of t of maximum priority and removes exactly it.
PopsMaximum(t) ==
    /\ pop(t).res = Ok
    /\ pop(t).out # <<>>
    /\ pop(t).out[1] \in Entries(t)
    /\ pop(t).out[1][2] = MaxPriority(t)
    /\ Entries(pop(t).treap) = Entries(t) \ {pop(t).out[1]}

\* C7: pop order.  From every reachable container of N entries each of N
\* consecutive pops returns and removes an entry of maximum priority among
\* those then present, the priorities returned do not increase, the N pops
\* return each entry once, and the next pop returns none; and a pop that has
\* been made returned such an entry, or none on an empty container.
C7_PopOrder ==
    /\ \A i \in 1..len(treap) : PopsMaximum(AfterPops(treap, i - 1))
    /\ \A i \in 1..(len(treap) - 1) :
          pop(AfterPops(treap, i - 1)).out[1][2]
              >= pop(AfterPops(treap, i)).out[1][2]
    /\ {pop(AfterPops(treap, i - 1)).out[1] : i \in 1..len(treap)} = Entries(treap)
    /\ pop(AfterPops(treap, len(treap))) =
          [res |-> Ok, out |-> <<>>, treap |-> AfterPops(treap, len(treap))]
    /\ AfterPops(treap, len(treap)).root = None
    /\ last.op = "pop" =>
          /\ last.res = Ok
          /\ last.out = pop(last.pre).out
          /\ treap = pop(last.pre).treap
          /\ len(last.pre) = 0 => last.out = <<>>
          /\ len(last.pre) > 0 => PopsMaximum(last.pre)

\* A pop made on a container of three entries, two of which shared the
\* maximum priority.
C7_Witness ==
    /\ last.op = "pop"
    /\ last.out # <<>>
    /\ len(last.pre) = 3
    /\ Cardinality(Priorities(last.pre)) = 2
    /\ \E e \in Entries(treap) : e[2] = last.out[1][2]

\* C8: cut correctness.  After cut(t) no remaining entry and no occupied
\* slot has a priority below t, and every entry that had a priority of at
\* least t before the cut is still found by get with the same priority and
\* value.
C8_CutCorrect ==
    last.op = "cut" =>
        /\ last.res = Ok
        /\ \A e \in Entries(treap) : e[2] >= last.priority
        /\ \A id \in LiveIds(treap) : NodeOf(treap, id).priority >= last.priority
        /\ \A e \in Entries(last.pre) :
              e[2] >= last.priority => get(treap, e[1]).out = Some(<<e[2], e[3]>>)

\* A cut of a three-entry container that dropped one entry, kept one of
\* exactly the threshold priority and one above it.
C8_Witness ==
    /\ last.op = "cut"
    /\ len(last.pre) = 3
    /\ len(treap) = 2
    /\ \E e \in Entries(treap) : e[2] = last.priority
    /\ \E e \in Entries(treap) : e[2] > last.priority

\* The n-th largest of a set of priorities, none when it has fewer than n.
NthLargest(S, n) ==
    IF Cardinality(S) < n THEN <<>>
    ELSE Some(CHOOSE p \in S : Cardinality({q \in S : q > p}) = n - 1)

\* The entries of the tests: keys and priorities in insertion order
\* (src/src/lib.rs:391-401).
ScenarioInserts ==
    << <<7, 10>>, <<4, 6>>, <<13, 8>>, <<2, 4>>, <<6, 2>>, <<9, 7>>,
       <<14, 4>>, <<0, 3>>, <<3, 3>>, <<5, 1>>, <<11, 3>> >>

RECURSIVE InsertAll(_, _)
InsertAll(t, seq) ==
    IF seq = <<>> THEN t
    ELSE InsertAll(insert(t, seq[1][1], seq[1][2], 0).treap, Tail(seq))

ScenarioPriorities == {ScenarioInserts[i][2] : i \in 1..Len(ScenarioInserts)}

\* C9: nth_priority order statistic.  In every reachable state and for every
\* n >= 1, nth_priority(n) is the n-th largest distinct priority present,
\* none when fewer than n distinct priorities are present; so was the result
\* of every nth_priority call made with n >= 1; and a new container into
\* which the entries of the tests are inserted answers nth_priority(1) = 10,
\* nth_priority(3) = 7 and nth_priority(9) = none.
C9_NthPriority ==
    /\ \A n \in NthT \ {0} :
          nth_priority(treap, n)
              = [res |-> Ok, out |-> NthLargest(Priorities(treap), n)]
    /\ (last.op = "nth_priority" /\ last.n >= 1) =>
          /\ last.res = Ok
          /\ last.out = NthLargest(Priorities(last.pre), last.n)
    /\ treap = Treap_new =>
          /\ nth_priority(InsertAll(treap, ScenarioInserts), 1)
                = [res |-> Ok, out |-> Some(10)]
          /\ nth_priority(InsertAll(treap, ScenarioInserts), 3)
                = [res |-> Ok, out |-> Some(7)]
          /\ nth_priority(InsertAll(treap, ScenarioInserts), 9)
                = [res |-> Ok, out |-> <<>>]
          /\ \A n \in 1..(Len(ScenarioInserts) + 1) :
                nth_priority(InsertAll(treap, ScenarioInserts), n)
                    = [res |-> Ok, out |-> NthLargest(ScenarioPriorities, n)]

\* nth_priority(2) answered on three entries of two distinct priorities, the
\* root's priority shared by one of its children.
C9_Witness ==
    /\ last.op = "nth_priority"
    /\ last.n = 2
    /\ last.out # <<>>
    /\ len(treap) = 3
    /\ Cardinality(Priorities(treap)) = 2
    /\ \E id \in LiveIds(treap) :
          /\ id # treap.root
          /\ NodeOf(treap, id).priority = NodeOf(treap, treap.root).priority

\* Claim C10: no panic path.  Every call made has returned a success value
\* or one of the arena error kinds.
C10_NoPanic ==
    last.res[1] \in {"Ok", "None", "Empty", "OutOfBounds"}

ArenaErrors == {"None", "Empty", "OutOfBounds"}

\* C11: arena errors are not user-triggerable.  No call made from a new
\* container through any sequence of public calls has returned one of the
\* arena error kinds; a call naming an absent key, a pop of an empty
\* container and an nth_priority(n), n >= 1, with fewer than n distinct
\* priorities present have returned Ok(None); and in every reachable state
\* every lookup and every nth_priority(n), n >= 1, returns Ok.
C11_NoArenaError ==
    /\ last.res[1] \notin ArenaErrors
    /\ (/\ last.op \in {"get", "get_mut", "priority", "remove", "prioritize"}
        /\ last.key \notin Keys(last.pre)) =>
          last.res = Ok /\ last.out = <<>>
    /\ (last.op = "pop" /\ len(last.pre) = 0) =>
          last.res = Ok /\ last.out = <<>>
    /\ (/\ last.op = "nth_priority"
        /\ last.n >= 1
        /\ Cardinality(Priorities(last.pre)) < last.n) =>
          last.res = Ok /\ last.out = <<>>
    /\ \A k \in KeyT :
          /\ get(treap, k).res = Ok
          /\ get_mut(treap, k).res = Ok
          /\ priority(treap, k).res = Ok
    /\ depth(treap).res = Ok
    /\ \A n \in NthT \ {0} : nth_priority(treap, n).res = Ok

\* A prioritize of an absent key that returned Ok(None) on an empty container
\* with at least two freed slots waiting for reuse.
C11_Witness ==
    /\ last.op = "prioritize"
    /\ last.out = <<>>
    /\ last.res = Ok
    /\ treap.root = None
    /\ Len(treap.index.reuse) >= 2

\* C12: prioritize contract.  A prioritize(k, p') made on a container where
\* k was present with (p0, v0) has returned Some(p0), and afterwards get(k)
\* finds (p', v0), the key set and len() are those before the call and the
\* search-tree and heap orders hold; made where k was absent it has returned
\* none, and get(k) still finds nothing and the key set and len() are
\* unchanged.
C12_PrioritizeContract ==
    last.op = "prioritize" =>
        /\ last.res = Ok
        /\ get(last.pre, last.key).out # <<>> =>
              /\ last.out = Some(get(last.pre, last.key).out[1][1])
              /\ get(treap, last.key).out
                    = Some(<<last.priority, get(last.pre, last.key).out[1][2]>>)
        /\ get(last.pre, last.key).out = <<>> =>
              /\ last.out = <<>>
              /\ get(treap, last.key).out = <<>>
        /\ Keys(treap) = Keys(last.pre)
        /\ len(treap) = len(last.pre)
        /\ C1_BstInvariant
        /\ C2_HeapInvariant

\* A prioritize that lowered the priority of the root of a three-entry
\* container, so that the entry is no longer the root.
C12_Witness ==
    /\ last.op = "prioritize"
    /\ len(last.pre) = 3
    /\ NodeOf(last.pre, last.pre.root).key = last.key
    /\ last.out # <<>>
    /\ last.out[1] > last.priority
    /\ NodeOf(treap, treap.root).key # last.key

\* The node whose left or right handle is id, None for a node no handle names.
ParentOf(t, id) ==
    IF \E j \in LiveIds(t) : NodeOf(t, j).left = id \/ NodeOf(t, j).right = id
    THEN CHOOSE j \in LiveIds(t) : NodeOf(t, j).left = id \/ NodeOf(t, j).right = id
    ELSE None

\* The number of nodes on the path from the root down to id.
RECURSIVE NodesOnPath(_, _, _)
NodesOnPath(t, id, fuel) ==
    IF fuel = 0 \/ id = None THEN 0
    ELSE 1 + NodesOnPath(t, ParentOf(t, id), fuel - 1)

\* The height of the tree: the number of nodes on its longest path from the
\* root to a leaf.
Height(t) ==
    IF Walk(t) = <<>> THEN 0
    ELSE CHOOSE h \in 1..Len(Walk(t)) :
            /\ \E id \in Range(Walk(t)) : NodesOnPath(t, id, Fuel(t)) = h
            /\ \A id \in Range(Walk(t)) : NodesOnPath(t, id, Fuel(t)) <= h

\* The entries of the scenario in increasing key order.
ScenarioByKey ==
    << <<0, 3>>, <<2, 4>>, <<3, 3>>, <<4, 6>>, <<5, 1>>, <<6, 2>>,
       <<7, 10>>, <<9, 7>>, <<11, 3>>, <<13, 8>>, <<14, 4>> >>

\* The scenario's container has key 7 of priority 10 at the root, and
\* depth() returns its height, which is 4.
ScenarioShape(t) ==
    /\ len(t) = 11
    /\ NodeOf(t, t.root).key = 7
    /\ NodeOf(t, t.root).priority = 10
    /\ depth(t) = [res |-> Ok, out |-> Height(t)]
    /\ depth(t).out = 4

\* C13: concrete scenario and depth.  A new container into which keys
\* 0,2,3,4,5,6,7,9,11,13,14 are inserted with priorities 3,4,3,6,1,2,10,7,3,8,4
\* (in key order, or in the order of the tests) has key 7 of priority 10 at
\* the root and depth() equal to the height of the tree; in every reachable
\* state depth() is 0 for an empty container and otherwise one more than the
\* greater of the depths of the root's two subtrees, and is the height of
\* the tree; and every depth call made has returned that.
C13_ScenarioAndDepth ==
    /\ treap = Treap_new =>
          /\ ScenarioShape(InsertAll(treap, ScenarioByKey))
          /\ ScenarioShape(InsertAll(treap, ScenarioInserts))
    /\ treap.root = None => depth(treap) = [res |-> Ok, out |-> 0]
    /\ treap.root # None =>
          depth(treap)
              = [res |-> Ok,
                 out |-> 1 + Max(depth_node(treap.index,
                                            NodeOf(treap, treap.root).left).out,
                                 depth_node(treap.index,
                                            NodeOf(treap, treap.root).right).out)]
    /\ depth(treap).out = Height(treap)
    /\ last.op = "depth" =>
          last.res = Ok /\ last.out = Some(Height(last.pre))

\* A depth call that returned 2 on a root with two children.
C13_Witness ==
    /\ last.op = "depth"
    /\ last.out = Some(2)
    /\ len(treap) = 3
    /\ IsLive(treap, NodeOf(treap, treap.root).left)
    /\ IsLive(treap, NodeOf(treap, treap.root).right)

\* merge_nodes applied to two handles of an arena returns the left root only
\* when its priority is strictly greater, the right root otherwise (equal
\* priorities included), and the other handle with the arena untouched when
\* one of the two is None.
MergeChoice(index, left, right) ==
    /\ merge_nodes(index, left, right).res = Ok
    /\ left = None =>
          merge_nodes(index, left, right)
              = [res |-> Ok, index |-> index, node |-> right]
    /\ right = None =>
          merge_nodes(index, left, right)
              = [res |-> Ok, index |-> index, node |-> left]
    /\ (left # None /\ right # None) =>
          /\ merge_nodes(index, left, right).node = left
                <=> DirectVecIndex_get(index, left).node.priority
                        > DirectVecIndex_get(index, right).node.priority
          /\ DirectVecIndex_get(index, left).node.priority
                <= DirectVecIndex_get(index, right).node.priority
                => merge_nodes(index, left, right).node = right

\* C14: merge tie-break.  For the two trees split leaves at any key of any
\* reachable container, and for the two subtrees of its root once the root
\* is taken out as pop does, merge_nodes returns the left root only when its
\* priority is strictly greater than the right root's, the right root when
\* the priorities are equal or the right is greater, and the other side
\* with the arena untouched when one side is empty.
C14_MergeTieBreak ==
    /\ \A k \in KeyT :
          MergeChoice(split(treap, k).index,
                      split(treap, k).left, split(treap, k).right)
    /\ treap.root # None =>
          MergeChoice(DirectVecIndex_remove(treap.index, treap.root).index,
                      NodeOf(treap, treap.root).left,
                      NodeOf(treap, treap.root).right)

\* A pop of a root whose two children had equal priorities made the right
\* child the new root.
C14_Witness ==
    /\ last.op = "pop"
    /\ len(last.pre) = 3
    /\ IsLive(last.pre, NodeOf(last.pre, last.pre.root).left)
    /\ IsLive(last.pre, NodeOf(last.pre, last.pre.root).right)
    /\ NodeOf(last.pre, NodeOf(last.pre, last.pre.root).left).priority
          = NodeOf(last.pre, NodeOf(last.pre, last.pre.root).right).priority
    /\ treap.root = NodeOf(last.pre, last.pre.root).right

\* ------------------------------------------- containers with a broken arena
\* An arena error needs a container whose handles do not agree with its
\* arena, which no sequence of public calls produces.  SpecFault starts from
\* the defect the error kinds exist for: a container built by inserts in
\* which code of the crate (the fields are private to it) has emptied an
\* occupied slot behind the tree's back, so that the child handle naming the
\* slot dangles.  One mutating call is then made on it.
MaxSlots == 3

InsertSeqs == UNION {[1..n -> KeyT \X PriT] : n \in 2..MaxSlots}

Vacated(t, id) == [t EXCEPT !.index.index[id + 1] = <<>>]

InitFault ==
    \E seq \in InsertSeqs, id \in 0..(MaxSlots - 1) :
        /\ IsLive(InsertAll(Treap_new, seq), id)
        /\ id # InsertAll(Treap_new, seq).root
        /\ treap = Vacated(InsertAll(Treap_new, seq), id)
        /\ ref = [k \in KeyT |-> get(InsertAll(Treap_new, seq), k).out]
        /\ last = Idle

NextFault ==
    \/ \E k \in KeyT, p \in PriT, v \in ValT : Insert(k, p, v)
    \/ \E k \in KeyT : Remove(k)
    \/ \E k \in KeyT, p \in PriT : Prioritize(k, p)
    \/ Pop
    \/ \E p \in PriT : Cut(p)

SpecFault == InitFault /\ [][NextFault]_vars

MutatingOps == {"insert", "remove", "prioritize", "pop", "cut"}

C16_SlotReuse ==
    /\ Range(treap.index.reuse)
          = {id \in 0..(Len(Slots(treap)) - 1) : Slots(treap)[id + 1] = <<>>}
    /\ Cardinality(Range(treap.index.reuse)) = Len(treap.index.reuse)
    /\ \A i \in 1..Len(treap.index.reuse) :
          /\ treap.index.reuse[i] \in 0..(Len(Slots(treap)) - 1)
          /\ ~IsLive(treap, treap.index.reuse[i])
    /\ Len(Slots(treap)) >= Len(treap.index.reuse)
    /\ DirectVecIndex_size(treap.index)
          = Len(Slots(treap)) - Len(treap.index.reuse)
    /\ DirectVecIndex_size(treap.index) = Cardinality(LiveIds(treap))

\* An insert that took one of two freed slots from the reuse stack and left
\* the other on it.
C16_Witness ==
    /\ last.op = "insert"
    /\ Len(last.pre.index.reuse) = 2
    /\ Len(treap.index.reuse) = 1
    /\ Len(Slots(treap)) = 3
    /\ len(treap) = 2

\* The handles one step below a set of handles.
Children(t, S) ==
    {h \in 0..(Len(Slots(t)) - 1) :
        \E id \in S : /\ IsLive(t, id)
                      /\ (NodeOf(t, id).left = h \/ NodeOf(t, id).right = h)}

\* The handles reachable from the root, occupied or not.
RECURSIVE ReachFrom(_, _, _)
ReachFrom(t, S, fuel) ==
    IF fuel = 0 \/ Children(t, S) \subseteq S THEN S
    ELSE ReachFrom(t, S \cup Children(t, S), fuel - 1)

Reach(t) == IF t.root = None THEN {} ELSE ReachFrom(t, {t.root}, Fuel(t))

\* The number of child handles that name id.
ParentHandles(t, id) ==
    Cardinality({j \in LiveIds(t) : NodeOf(t, j).left = id})
        + Cardinality({j \in LiveIds(t) : NodeOf(t, j).right = id})

\* C17: arena consistency.  In every reachable state the root handle and
\* every left or right handle reachable from it is None or names an occupied
\* slot, every occupied slot is reachable from the root, no handle names the
\* root, every other occupied slot is named by exactly one child handle, and
\* the walk from the root meets every occupied slot exactly once (one path
\* to each node, no cycle).
C17_ArenaConsistency ==
    /\ treap.root = None \/ IsLive(treap, treap.root)
    /\ \A id \in Reach(treap) :
          /\ IsLive(treap, id)
          /\ NodeOf(treap, id).left = None \/ IsLive(treap, NodeOf(treap, id).left)
          /\ NodeOf(treap, id).right = None \/ IsLive(treap, NodeOf(treap, id).right)
    /\ LiveIds(treap) = Reach(treap)
    /\ \A id \in LiveIds(treap) :
          /\ ParentHandles(treap, id) = (IF id = treap.root THEN 0 ELSE 1)
          /\ Cardinality({i \in 1..Len(Walk(treap)) : Walk(treap)[i] = id}) = 1
          /\ NodesOnPath(treap, id, Fuel(treap)) <= Cardinality(LiveIds(treap))

\* A remove took the root out of a three-node tree and relinked the two
\* nodes left.
C17_Witness ==
    /\ last.op = "remove"
    /\ len(last.pre) = 3
    /\ NodeOf(last.pre, last.pre.root).key = last.key
    /\ len(treap) = 2
    /\ ParentHandles(treap, treap.root) = 0
    /\ \E id \in LiveIds(treap) : ParentHandles(treap, id) = 1

\* The tree below handle node of arena index, as a container.
TreeAt(index, node) == [root |-> node, index |-> index]

\* The keys met on the walk from the root increase strictly.
IsBst(t) ==
    \A i \in 1..(Len(Walk(t)) - 1) :
        NodeOf(t, Walk(t)[i]).key < NodeOf(t, Walk(t)[i + 1]).key

\* No node on the walk from the root has a child of greater priority.
IsHeap(t) ==
    \A id \in Range(Walk(t)) :
        /\ IsLive(t, NodeOf(t, id).left) =>
              NodeOf(t, id).priority >= NodeOf(t, NodeOf(t, id).left).priority
        /\ IsLive(t, NodeOf(t, id).right) =>
              NodeOf(t, id).priority >= NodeOf(t, NodeOf(t, id).right).priority

\* split(t, k) returned s: the contract of C18.
SplitContract(t, k, s) ==
    /\ s.res = Ok
    /\ SubtreeKeys(TreeAt(s.index, s.left), s.left) = {x \in Keys(t) : x < k}
    /\ SubtreeKeys(TreeAt(s.index, s.right), s.right) = {x \in Keys(t) : x > k}
    /\ k \notin Keys(t) => s.entry = None
    /\ k \in Keys(t) =>
          /\ IsLive(TreeAt(s.index, s.entry), s.entry)
          /\ NodeOf(TreeAt(s.index, s.entry), s.entry)
                = Node(k, get(t, k).out[1][1], get(t, k).out[1][2], None, None)
    /\ Len(Walk(TreeAt(s.index, s.left))) = Cardinality({x \in Keys(t) : x < k})
    /\ Len(Walk(TreeAt(s.index, s.right))) = Cardinality({x \in Keys(t) : x > k})
    /\ Range(Walk(TreeAt(s.index, s.left)))
          \cup Range(Walk(TreeAt(s.index, s.right)))
          \cup (IF s.entry = None THEN {} ELSE {s.entry})
          = LiveIds(t)
    /\ s.index.reuse = t.index.reuse
    /\ \A id \in LiveIds(t) :
          /\ NodeOf(TreeAt(s.index, None), id).key = NodeOf(t, id).key
          /\ NodeOf(TreeAt(s.index, None), id).priority = NodeOf(t, id).priority
          /\ NodeOf(TreeAt(s.index, None), id).value = NodeOf(t, id).value
    /\ IsBst(TreeAt(s.index, s.left))
    /\ IsHeap(TreeAt(s.index, s.left))
    /\ IsBst(TreeAt(s.index, s.right))
    /\ IsHeap(TreeAt(s.index, s.right))

\* C18: split contract.  For every reachable container T and every key k,
\* split(T, k) returns a left tree holding exactly the nodes of T with key
\* below k, a right tree holding exactly those with key above k, and as
\* entry the node of key k with both child handles cleared, None when k is
\* absent; every node of T is in exactly one of the three with its key,
\* priority and value; and left and right are each in search-tree order and
\* heap order.  The same held of the split made by every insert, remove and
\* prioritize call.
C18_SplitContract ==
    /\ \A k \in KeyT : SplitContract(treap, k, split(treap, k))
    /\ last.op \in {"insert", "remove", "prioritize"} =>
          SplitContract(last.pre, last.key, split(last.pre, last.key))

\* A remove of the middle key of three, which was not the root: its split
\* returned a left tree, the entry and a right tree.
C18_Witness ==
    /\ last.op = "remove"
    /\ Keys(last.pre) = KeyT
    /\ last.key \notin {0, MaxKey}
    /\ NodeOf(last.pre, last.pre.root).key # last.key
    /\ split(last.pre, last.key).left # None
    /\ split(last.pre, last.key).entry # None
    /\ split(last.pre, last.key).right # None

\* The <<key, priority>> pairs of the entries.
KeyPriorities(t) == {<<e[1], e[2]>> : e \in Entries(t)}

\* The pair that heads a non-empty set of pairs: of greatest priority and,
\* among those, of greatest key.
HeadOf(S) ==
    CHOOSE e \in S : \A f \in S : f[2] < e[2] \/ (f[2] = e[2] /\ f[1] <= e[1])

\* The one shape a set of <<key, priority>> pairs can take: its head at the
\* root, the pairs of lesser key below it on the left, those of greater key
\* on the right, each side shaped the same way.  Given as parent/child edges
\* <<parent key, side, child key>>.
RECURSIVE ShapeOf(_)
ShapeOf(S) ==
    IF S = {} THEN {}
    ELSE LET lesser == {e \in S : e[1] < HeadOf(S)[1]}
             greater == {e \in S : e[1] > HeadOf(S)[1]}
         IN  (IF lesser = {} THEN {}
              ELSE {<<HeadOf(S)[1], "left", HeadOf(lesser)[1]>>})
             \cup (IF greater = {} THEN {}
                   ELSE {<<HeadOf(S)[1], "right", HeadOf(greater)[1]>>})
             \cup ShapeOf(lesser) \cup ShapeOf(greater)

RECURSIVE DepthOf(_)
DepthOf(S) ==
    IF S = {} THEN 0
    ELSE 1 + Max(DepthOf({e \in S : e[1] < HeadOf(S)[1]}),
                 DepthOf({e \in S : e[1] > HeadOf(S)[1]}))

\* The parent/child edges between the keys of the container.
Edges(t) ==
    {<<NodeOf(t, id).key, "left", NodeOf(t, NodeOf(t, id).left).key>> :
        id \in {j \in LiveIds(t) : IsLive(t, NodeOf(t, j).left)}}
    \cup
    {<<NodeOf(t, id).key, "right", NodeOf(t, NodeOf(t, id).right).key>> :
        id \in {j \in LiveIds(t) : IsLive(t, NodeOf(t, j).right)}}

\* C19: history independence.  In every reachable state, whatever sequence
\* of insert, remove, prioritize, pop and cut calls led to it, the root key,
\* the parent/child relation between keys and depth() are those determined
\* by the set of (key, priority) pairs present alone: each subtree is headed
\* by its entry of greatest priority and, among entries of equal priority,
\* by the one of greatest key; so that of two entries of equal priority of
\* which one is an ancestor of the other, the ancestor has the greater key.
C19_HistoryIndependence ==
    /\ treap.root = None <=> KeyPriorities(treap) = {}
    /\ treap.root # None =>
          NodeOf(treap, treap.root).key = HeadOf(KeyPriorities(treap))[1]
    /\ Edges(treap) = ShapeOf(KeyPriorities(treap))
    /\ depth(treap) = [res |-> Ok, out |-> DepthOf(KeyPriorities(treap))]
    /\ \A id \in LiveIds(treap) :
          \A k \in SubtreeKeys(treap, NodeOf(treap, id).left)
                   \cup SubtreeKeys(treap, NodeOf(treap, id).right) :
              get(treap, k).out[1][1] = NodeOf(treap, id).priority
                  => k < NodeOf(treap, id).key

\* A pop of an entry whose key lay between the other two left two entries
\* of equal priority, the one of greater key at the root.
C19_Witness ==
    /\ last.op = "pop"
    /\ last.out # <<>>
    /\ len(treap) = 2
    /\ Cardinality(Priorities(treap)) = 1
    /\ IsLive(treap, NodeOf(treap, treap.root).left)
    /\ last.out[1][1] > NodeOf(treap, NodeOf(treap, treap.root).left).key
    /\ last.out[1][1] < NodeOf(treap, treap.root).key

\* C20: no orphaned nodes.  In every reachable state every occupied slot is
\* reachable from the root handle and there are as many occupied slots as
\* keys get finds; after a cut no slot that held an entry of priority below
\* the threshold is occupied, and after an insert or a prioritize of a
\* present key one occupied slot holds the key.
C20_NoOrphans ==
    /\ LiveIds(treap) \subseteq Reach(treap)
    /\ Cardinality(LiveIds(treap)) = Cardinality(Keys(treap))
    /\ last.op = "cut" =>
          \A id \in LiveIds(last.pre) :
              NodeOf(last.pre, id).priority < last.priority => ~IsLive(treap, id)
    /\ (last.op \in {"insert", "prioritize"} /\ last.out # <<>>) =>
          /\ Cardinality(LiveIds(treap)) = Cardinality(LiveIds(last.pre))
          /\ Cardinality({id \in LiveIds(treap) : NodeOf(treap, id).key = last.key}) = 1

\* A cut dropped a node together with its right child and kept the root.
C20_Witness ==
    /\ last.op = "cut"
    /\ len(last.pre) = 3
    /\ len(treap) = 1
    /\ \E id \in LiveIds(last.pre) :
          /\ ~IsLive(treap, id)
          /\ IsLive(last.pre, NodeOf(last.pre, id).right)
          /\ ~IsLive(treap, NodeOf(last.pre, id).right)

\* C21: frame of no-op mutations.  A remove(k) or a prioritize(k, p) made
\* for an absent key k, a pop made on an empty container and a cut(t) made
\* when no entry had a priority below t have returned Ok and left the
\* container exactly as it was: the same root handle, the same contents of
\* every slot (key, priority, value, left, right) and the same reuse stack.
C21_NoOpFrame ==
    /\ (last.op \in {"remove", "prioritize"} /\ last.key \notin Keys(last.pre)) =>
          /\ last.res = Ok
          /\ last.out = <<>>
          /\ treap.root = last.pre.root
          /\ treap.index.index = last.pre.index.index
          /\ treap.index.reuse = last.pre.index.reuse
    /\ (last.op = "pop" /\ len(last.pre) = 0) =>
          /\ last.res = Ok
          /\ last.out = <<>>
          /\ treap = last.pre
    /\ (last.op = "cut" /\ \A e \in Entries(last.pre) : e[2] >= last.priority) =>
          /\ last.res = Ok
          /\ treap.root = last.pre.root
          /\ treap.index.index = last.pre.index.index
          /\ treap.index.reuse = last.pre.index.reuse

\* A remove of an absent key lying between the two keys present: its split
\* took the two nodes apart, rewriting a child handle, and its merge linked
\* them again.
C21_Witness ==
    /\ last.op = "remove"
    /\ last.key \notin Keys(last.pre)
    /\ len(last.pre) = 2
    /\ treap.index.reuse # <<>>
    /\ split(last.pre, last.key).left # None
    /\ split(last.pre, last.key).right # None
    /\ split(last.pre, last.key).index # last.pre.index
    /\ treap = last.pre

\* The visits of one nth_priority call in order, the root first: for each
\* nth_priority_node call the node visited, the queue and the candidate list
\* it was given and what it returned.
RECURSIVE nth_priority_visits(_, _, _, _)
nth_priority_visits(index, n, queue, pri) ==
    IF queue = <<>> THEN <<>>
    ELSE <<[node |-> Head(queue), queue |-> Tail(queue), pri |-> pri,
            next |-> nth_priority_node(index, Head(queue), n, Tail(queue), pri)]>>
         \o (IF nth_priority_node(index, Head(queue), n, Tail(queue), pri).res # Ok
             THEN <<>>
             ELSE nth_priority_visits(
                      index, n,
                      nth_priority_node(index, Head(queue), n, Tail(queue), pri).queue,
                      nth_priority_node(index, Head(queue), n, Tail(queue), pri).pri))

Visits(t, n) ==
    IF t.root = None THEN <<>>
    ELSE nth_priority_visits(t.index, n, <<t.root>>, <<>>)

\* The candidate list holds distinct priorities in decreasing order.
Decreasing(pri) == \A i \in 1..(Len(pri) - 1) : pri[i] > pri[i + 1]

\* A node whose priority ranks at position n or beyond in the list it is
\* searched in has none of its children enqueued.
Pruned(t, n, visit) ==
    binary_search(visit.pri, NodeOf(t, visit.node).priority)[2] >= n
        => visit.next.queue = visit.queue

\* Claim C22: the nth_priority candidate list is bounded.  In every
\* reachable state and for every n, after each node visited by
\* nth_priority(n) the candidate list holds distinct priorities in
\* decreasing order and at most n of them, and a node whose priority ranks
\* at position n or beyond has neither child enqueued.
C22_CandidateListBounded ==
    \A n \in NthT :
        \A i \in 1..Len(Visits(treap, n)) :
            /\ Decreasing(Visits(treap, n)[i].next.pri)
            /\ Len(Visits(treap, n)[i].next.pri) <= n
            /\ Pruned(treap, n, Visits(treap, n)[i])

====
